---- MODULE Spec2Model ----
(***************************************************************************)
(* KRec: a recording container for robot telemetry.                        *)
(*                                                                         *)
(* The Python binding layer (src/python/src/lib.rs) is modelled from its   *)
(* code.  The core crate krec_rs it calls into (KRec::new, KRec::add_frame,*)
(* KRec::save, KRec::load, krec_rs::combine_with_video and the record      *)
(* types generated from protos/krec.proto) is not among the source files;  *)
(* it is modelled from spec.md and every such definition says so.          *)
(***************************************************************************)
EXTENDS Integers, Sequences, FiniteSets, TLC

(***************************************************************************)
(* Bounds of the model.                                                    *)
(***************************************************************************)
\* Largest number of frames a recording holds in the model.
MaxFrames == 2

\* Largest number of frames a recording holds while the caller goes on
\* changing the frame object it appended.
MaxOwned == 1
\* Largest number of actuator states of the caller's frame object.
MaxStates == 1

(***************************************************************************)
(* Rust values.                                                            *)
(*   Option<T>   : None is <<>>, Some(x) is <<x>>                          *)
(*   Result<T,E> : Ok(v) is [ok |-> TRUE, v |-> v],                        *)
(*                 Err(e) is [ok |-> FALSE, err |-> e]                     *)
(*   f64, f32    : abstract numbers; 0 is 0.0                              *)
(*   String      : a TLA+ string of the set Texts                          *)
(***************************************************************************)
None == <<>>
Some(x) == <<x>>
is_some(o) == o # <<>>
is_none(o) == o = <<>>
unwrap_or(o, d) == IF o = <<>> THEN d ELSE o[1]
Ok(v) == [ok |-> TRUE, v |-> v]
Err(e) == [ok |-> FALSE, err |-> e]

\* PyValueError::new_err(..): the exception a constructor raises.
PyValueError == [exc |-> "ValueError", msg |-> "bad iterable"]

\* The `values` argument of a constructor: absent, an object that is not
\* iterable, or an iterable of items.
NoValues == [kind |-> "none", items |-> <<>>]
NotIterable == [kind |-> "noniter", items |-> <<>>]
Iter(items) == [kind |-> "iter", items |-> items]

(***************************************************************************)
(* Record defaults (T::default() of the generated record types).           *)
(***************************************************************************)
Vec3_default == [x |-> 0, y |-> 0, z |-> 0]
ImuQuaternion_default == [x |-> 0, y |-> 0, z |-> 0, w |-> 1]
ImuValues_default ==
    [accel |-> None, gyro |-> None, mag |-> None, quaternion |-> None]
ActuatorState_default ==
    [actuator_id |-> 0, online |-> FALSE, position |-> None, velocity |-> None,
     torque |-> None, temperature |-> None, voltage |-> None, current |-> None]
ActuatorConfig_default ==
    [actuator_id |-> 0, kp |-> None, kd |-> None, ki |-> None,
     max_torque |-> None, name |-> None]
ActuatorCommand_default ==
    [actuator_id |-> 0, position |-> 0, velocity |-> 0, effort |-> 0]
KRecFrame_default ==
    [video_timestamp |-> 0, frame_number |-> 0, inference_step |-> 0,
     actuator_states |-> <<>>, actuator_commands |-> None, imu_values |-> None]

(***************************************************************************)
(* Constructors of the binding layer.                                      *)
(***************************************************************************)
\* PyVec3::new(x, y, z, values)
PyVec3_new(x, y, z, values) ==
    IF values.kind = "iter"
    THEN IF Len(values.items) # 3
         THEN Err(PyValueError)
         ELSE Ok([Vec3_default EXCEPT !.x = values.items[1],
                                      !.y = values.items[2],
                                      !.z = values.items[3]])
    ELSE Ok([Vec3_default EXCEPT !.x = unwrap_or(x, 0),
                                 !.y = unwrap_or(y, 0),
                                 !.z = unwrap_or(z, 0)])

\* Mutant of PyIMUQuaternion::new: a w that is not given is zero, like x, y, z.
PyIMUQuaternion_new_zero_w(x, y, z, w, values) ==
    IF values.kind = "iter"
    THEN IF Len(values.items) # 4
         THEN Err(PyValueError)
         ELSE Ok([x |-> values.items[1], y |-> values.items[2],
                  z |-> values.items[3], w |-> values.items[4]])
    ELSE Ok([x |-> unwrap_or(x, 0), y |-> unwrap_or(y, 0),
             z |-> unwrap_or(z, 0), w |-> unwrap_or(w, 0)])

\* PyIMUQuaternion::new(x, y, z, w, values)
PyIMUQuaternion_new(x, y, z, w, values) ==
    IF values.kind = "iter"
    THEN IF Len(values.items) # 4
         THEN Err(PyValueError)
         ELSE Ok([ImuQuaternion_default EXCEPT !.x = values.items[1],
                                               !.y = values.items[2],
                                               !.z = values.items[3],
                                               !.w = values.items[4]])
    ELSE Ok([ImuQuaternion_default EXCEPT !.x = unwrap_or(x, 0),
                                          !.y = unwrap_or(y, 0),
                                          !.z = unwrap_or(z, 0),
                                          !.w = unwrap_or(w, 1)])

\* PyIMUValues::new(accel, gyro, mag, quaternion, values).  The items of the
\* iterable are Options: None stays unset, Some(v) is stored.
PyIMUValues_new(accel, gyro, mag, quaternion, values) ==
    IF values.kind = "iter"
    THEN IF Len(values.items) # 4
         THEN Err(PyValueError)
         ELSE Ok([ImuValues_default EXCEPT !.accel = values.items[1],
                                           !.gyro = values.items[2],
                                           !.mag = values.items[3],
                                           !.quaternion = values.items[4]])
    ELSE Ok([ImuValues_default EXCEPT !.accel = accel,
                                      !.gyro = gyro,
                                      !.mag = mag,
                                      !.quaternion = quaternion])

\* Mutant of PyActuatorState::new: an unset position is stored as zero.
PyActuatorState_new_zeroed(actuator_id, online, position, velocity, torque, temperature, voltage, current, values) ==
    Ok([ActuatorState_default EXCEPT
          !.actuator_id = actuator_id,
          !.online = unwrap_or(online, FALSE),
          !.position = Some(unwrap_or(position, 0)),
          !.velocity = velocity,
          !.torque = torque,
          !.temperature = temperature,
          !.voltage = voltage,
          !.current = current])

\* PyActuatorState::new(actuator_id, online, position, .., current, values)
PyActuatorState_new(actuator_id, online, position, velocity, torque, temperature, voltage, current, values) ==
    IF values.kind = "iter"
    THEN IF Len(values.items) # 7
         THEN Err(PyValueError)
         ELSE Ok([ActuatorState_default EXCEPT
                    !.actuator_id = actuator_id,
                    !.online = values.items[1],
                    !.position = values.items[2],
                    !.velocity = values.items[3],
                    !.torque = values.items[4],
                    !.temperature = values.items[5],
                    !.voltage = values.items[6],
                    !.current = values.items[7]])
    ELSE Ok([ActuatorState_default EXCEPT
               !.actuator_id = actuator_id,
               !.online = unwrap_or(online, FALSE),
               !.position = position,
               !.velocity = velocity,
               !.torque = torque,
               !.temperature = temperature,
               !.voltage = voltage,
               !.current = current])

\* PyActuatorConfig::new(actuator_id, kp, kd, ki, max_torque, name, values)
PyActuatorConfig_new(actuator_id, kp, kd, ki, max_torque, name, values) ==
    IF values.kind = "iter"
    THEN IF Len(values.items) # 5
         THEN Err(PyValueError)
         ELSE Ok([ActuatorConfig_default EXCEPT
                    !.actuator_id = actuator_id,
                    !.kp = values.items[1],
                    !.kd = values.items[2],
                    !.ki = values.items[3],
                    !.max_torque = values.items[4],
                    !.name = values.items[5]])
    ELSE Ok([ActuatorConfig_default EXCEPT
               !.actuator_id = actuator_id,
               !.kp = kp,
               !.kd = kd,
               !.ki = ki,
               !.max_torque = max_torque,
               !.name = name])

\* PyActuatorCommand::new(actuator_id, position, velocity, effort, values)
PyActuatorCommand_new(actuator_id, position, velocity, effort, values) ==
    IF values.kind = "iter"
    THEN IF Len(values.items) # 3
         THEN Err(PyValueError)
         ELSE Ok([ActuatorCommand_default EXCEPT
                    !.actuator_id = actuator_id,
                    !.position = values.items[1],
                    !.velocity = values.items[2],
                    !.effort = values.items[3]])
    ELSE Ok([ActuatorCommand_default EXCEPT
               !.actuator_id = actuator_id,
               !.position = unwrap_or(position, 0),
               !.velocity = unwrap_or(velocity, 0),
               !.effort = unwrap_or(effort, 0)])

\* PyKRecFrame::new(video_timestamp, frame_number, inference_step, values)
PyKRecFrame_new(video_timestamp, frame_number, inference_step, values) ==
    IF values.kind = "iter"
    THEN IF Len(values.items) # 3
         THEN Err(PyValueError)
         ELSE Ok([KRecFrame_default EXCEPT
                    !.video_timestamp = values.items[1],
                    !.frame_number = values.items[2],
                    !.inference_step = values.items[3]])
    ELSE Ok([KRecFrame_default EXCEPT
               !.video_timestamp = unwrap_or(video_timestamp, 0),
               !.frame_number = unwrap_or(frame_number, 0),
               !.inference_step = unwrap_or(inference_step, 0)])

(***************************************************************************)
(* Methods of PyKRecFrame that change the caller's frame object.           *)
(***************************************************************************)
set_video_timestamp(self, value) == [self EXCEPT !.video_timestamp = value]
set_frame_number(self, value) == [self EXCEPT !.frame_number = value]
set_inference_step(self, value) == [self EXCEPT !.inference_step = value]
add_actuator_state(self, state) ==
    [self EXCEPT !.actuator_states = Append(@, state)]
clear_actuator_states(self) == [self EXCEPT !.actuator_states = <<>>]
set_actuator_commands(self, commands) ==
    [self EXCEPT !.actuator_commands = commands]
clear_actuator_commands(self) == [self EXCEPT !.actuator_commands = None]
set_imu_values(self, imu) == [self EXCEPT !.imu_values = imu]
clear_imu_values(self) == [self EXCEPT !.imu_values = None]

(***************************************************************************)
(* The recording aggregate of the core crate (krec_rs::KRec).              *)
(***************************************************************************)
\* KRec::new(header): an empty recording; the header is not validated.
KRec_new(header) == [header |-> header, frames |-> <<>>]

\* KRec::add_frame(frame): appends to the end of the frame sequence.
KRec_add_frame(self, frame) == [self EXCEPT !.frames = Append(@, frame)]

(***************************************************************************)
(* Persistence codec of the core crate: a tag-length-value byte stream.    *)
(* A file is a sequence of numbers ("bytes").  A field is written as       *)
(* <<tag, length>> followed by its payload; an optional field that is None *)
(* is not written; a repeated field is written once per element, in order. *)
(* The file is <<KRecMagic, KRecVersion, n>>, the length-prefixed header   *)
(* and the n length-prefixed frames in append order.                       *)
(***************************************************************************)
KRecMagic == 75
KRecVersion == 1

\* The text values of the model and their bytes.
Texts == {"", "abc-123", "walk", "xyz", "grasp", "bot", "hip"}
StrBytes(s) ==
    CASE s = "" -> <<>>
      [] s = "abc-123" -> <<97, 98, 99, 45, 49, 50, 51>>
      [] s = "walk" -> <<119, 97, 108, 107>>
      [] s = "xyz" -> <<120, 121, 122>>
      [] s = "grasp" -> <<103, 114, 97, 115, 112>>
      [] s = "bot" -> <<98, 111, 116>>
      [] s = "hip" -> <<104, 105, 112>>
BytesStr(b) ==
    IF \E s \in Texts : StrBytes(s) = b
    THEN Ok(CHOOSE s \in Texts : StrBytes(s) = b)
    ELSE Err("DecodeFailure")

BoolByte(v) == IF v THEN 1 ELSE 0

\* Concatenation of a sequence of byte sequences, in order.
RECURSIVE Concat(_)
Concat(ss) == IF ss = <<>> THEN <<>> ELSE Head(ss) \o Concat(Tail(ss))

EncField(tag, payload) == <<tag, Len(payload)>> \o payload
EncScalar(tag, v) == EncField(tag, <<v>>)
\* An optional scalar: omitted when None, written (also when zero) when Some.
EncOptScalar(tag, o) == IF o = None THEN <<>> ELSE EncScalar(tag, o[1])
LenDelim(b) == <<Len(b)>> \o b

EncVec3(v) == EncScalar(1, v.x) \o EncScalar(2, v.y) \o EncScalar(3, v.z)
EncImuQuaternion(q) ==
    EncScalar(1, q.x) \o EncScalar(2, q.y) \o EncScalar(3, q.z) \o EncScalar(4, q.w)
EncImuValues(i) ==
       (IF i.accel = None THEN <<>> ELSE EncField(1, EncVec3(i.accel[1])))
    \o (IF i.gyro = None THEN <<>> ELSE EncField(2, EncVec3(i.gyro[1])))
    \o (IF i.mag = None THEN <<>> ELSE EncField(3, EncVec3(i.mag[1])))
    \o (IF i.quaternion = None THEN <<>>
        ELSE EncField(4, EncImuQuaternion(i.quaternion[1])))
EncActuatorState(s) ==
       EncScalar(1, s.actuator_id) \o EncScalar(2, BoolByte(s.online))
    \o EncOptScalar(3, s.position) \o EncOptScalar(4, s.velocity)
    \o EncOptScalar(5, s.torque) \o EncOptScalar(6, s.temperature)
    \o EncOptScalar(7, s.voltage) \o EncOptScalar(8, s.current)
EncActuatorConfig(c) ==
       EncScalar(1, c.actuator_id)
    \o EncOptScalar(2, c.kp) \o EncOptScalar(3, c.kd)
    \o EncOptScalar(4, c.ki) \o EncOptScalar(5, c.max_torque)
    \o (IF c.name = None THEN <<>> ELSE EncField(6, StrBytes(c.name[1])))
EncActuatorCommand(c) ==
       EncScalar(1, c.actuator_id) \o EncScalar(2, c.position)
    \o EncScalar(3, c.velocity) \o EncScalar(4, c.effort)
EncKRecHeader(h) ==
       EncField(1, StrBytes(h.uuid)) \o EncField(2, StrBytes(h.task))
    \o EncField(3, StrBytes(h.robot_platform))
    \o EncField(4, StrBytes(h.robot_serial))
    \o EncScalar(5, h.start_timestamp) \o EncScalar(6, h.end_timestamp)
    \o Concat([i \in 1..Len(h.actuator_configs) |->
                 EncField(7, EncActuatorConfig(h.actuator_configs[i]))])
EncKRecFrame(f) ==
       EncScalar(1, f.video_timestamp) \o EncScalar(2, f.frame_number)
    \o EncScalar(3, f.inference_step)
    \o Concat([i \in 1..Len(f.actuator_states) |->
                 EncField(4, EncActuatorState(f.actuator_states[i]))])
    \o (IF f.actuator_commands = None THEN <<>>
        ELSE EncField(5, EncActuatorCommand(f.actuator_commands[1])))
    \o (IF f.imu_values = None THEN <<>>
        ELSE EncField(6, EncImuValues(f.imu_values[1])))
\* The bytes of a whole recording.
Encode(r) ==
       <<KRecMagic, KRecVersion, Len(r.frames)>>
    \o LenDelim(EncKRecHeader(r.header))
    \o Concat([i \in 1..Len(r.frames) |-> LenDelim(EncKRecFrame(r.frames[i]))])

(***************************************************************************)
(* Decoding.  ParseFields splits a message into its <<tag, payload>>       *)
(* fields and fails when a tag has no length or a payload is cut short.    *)
(* A field whose tag the reader does not know is skipped.                  *)
(***************************************************************************)
DecodeFailure == Err("DecodeFailure")

RECURSIVE ParseFields(_)
ParseFields(b) ==
    IF b = <<>> THEN Ok(<<>>)
    ELSE IF Len(b) < 2 \/ Len(b) < 2 + b[2] THEN DecodeFailure
    ELSE LET rest == ParseFields(SubSeq(b, 3 + b[2], Len(b)))
         IN IF ~rest.ok THEN DecodeFailure
            ELSE Ok(<<[tag |-> b[1], payload |-> SubSeq(b, 3, 2 + b[2])]>> \o rest.v)

\* The payloads of the fields with this tag, in order.
Payloads(fields, tag) ==
    LET hit == SelectSeq(fields, LAMBDA f : f.tag = tag)
    IN [i \in 1..Len(hit) |-> hit[i].payload]
\* Every field with one of these tags holds exactly one number.
ScalarsOk(fields, tags) ==
    \A i \in 1..Len(fields) : fields[i].tag \in tags => Len(fields[i].payload) = 1
\* A required scalar: the last one written, or the default.
Req(fields, tag, default) ==
    LET ps == Payloads(fields, tag)
    IN IF ps = <<>> THEN default ELSE ps[Len(ps)][1]
\* An optional scalar: None when no field was written.
Opt(fields, tag) ==
    LET ps == Payloads(fields, tag)
    IN IF ps = <<>> THEN None ELSE Some(ps[Len(ps)][1])
\* The payload of an optional nested message: None when no field was written.
LastPayload(fields, tag) ==
    LET ps == Payloads(fields, tag)
    IN IF ps = <<>> THEN None ELSE Some(ps[Len(ps)])
\* The outcome of an optional nested message, from its payload (o) and what
\* decoding that payload gave (m): Ok(None), Ok(Some(v)) or a failure.
OptMsg(o, m) ==
    IF o = None THEN Ok(None)
    ELSE IF m.ok THEN Ok(Some(m.v)) ELSE DecodeFailure
\* The outcome of a repeated nested message, from what decoding each element
\* gave: every element in order, or a failure.
Repeated(ms) ==
    IF \A i \in 1..Len(ms) : ms[i].ok
    THEN Ok([i \in 1..Len(ms) |-> ms[i].v])
    ELSE DecodeFailure
ByteBool(v) == v # 0

DecVec3(b) ==
    LET p == ParseFields(b)
    IN IF ~p.ok \/ ~ScalarsOk(p.v, {1, 2, 3}) THEN DecodeFailure
       ELSE Ok([x |-> Req(p.v, 1, Vec3_default.x),
                y |-> Req(p.v, 2, Vec3_default.y),
                z |-> Req(p.v, 3, Vec3_default.z)])
DecImuQuaternion(b) ==
    LET p == ParseFields(b)
    IN IF ~p.ok \/ ~ScalarsOk(p.v, {1, 2, 3, 4}) THEN DecodeFailure
       ELSE Ok([x |-> Req(p.v, 1, ImuQuaternion_default.x),
                y |-> Req(p.v, 2, ImuQuaternion_default.y),
                z |-> Req(p.v, 3, ImuQuaternion_default.z),
                w |-> Req(p.v, 4, ImuQuaternion_default.w)])
DecImuValues(b) ==
    LET p == ParseFields(b)
    IN IF ~p.ok THEN DecodeFailure
       ELSE LET a == LET o == LastPayload(p.v, 1) IN OptMsg(o, DecVec3(unwrap_or(o, <<>>)))
                g == LET o == LastPayload(p.v, 2) IN OptMsg(o, DecVec3(unwrap_or(o, <<>>)))
                m == LET o == LastPayload(p.v, 3) IN OptMsg(o, DecVec3(unwrap_or(o, <<>>)))
                q == LET o == LastPayload(p.v, 4)
                     IN OptMsg(o, DecImuQuaternion(unwrap_or(o, <<>>)))
            IN IF ~(a.ok /\ g.ok /\ m.ok /\ q.ok) THEN DecodeFailure
               ELSE Ok([accel |-> a.v, gyro |-> g.v, mag |-> m.v,
                        quaternion |-> q.v])
DecActuatorState(b) ==
    LET p == ParseFields(b)
    IN IF ~p.ok \/ ~ScalarsOk(p.v, 1..8) THEN DecodeFailure
       ELSE Ok([actuator_id |-> Req(p.v, 1, ActuatorState_default.actuator_id),
                online |-> ByteBool(Req(p.v, 2, 0)),
                position |-> Opt(p.v, 3), velocity |-> Opt(p.v, 4),
                torque |-> Opt(p.v, 5), temperature |-> Opt(p.v, 6),
                voltage |-> Opt(p.v, 7), current |-> Opt(p.v, 8)])
DecActuatorConfig(b) ==
    LET p == ParseFields(b)
    IN IF ~p.ok \/ ~ScalarsOk(p.v, 1..5) THEN DecodeFailure
       ELSE LET n == LET o == LastPayload(p.v, 6) IN OptMsg(o, BytesStr(unwrap_or(o, <<>>)))
            IN IF ~n.ok THEN DecodeFailure
               ELSE Ok([actuator_id |->
                            Req(p.v, 1, ActuatorConfig_default.actuator_id),
                        kp |-> Opt(p.v, 2), kd |-> Opt(p.v, 3),
                        ki |-> Opt(p.v, 4), max_torque |-> Opt(p.v, 5),
                        name |-> n.v])
DecActuatorCommand(b) ==
    LET p == ParseFields(b)
    IN IF ~p.ok \/ ~ScalarsOk(p.v, 1..4) THEN DecodeFailure
       ELSE Ok([actuator_id |->
                    Req(p.v, 1, ActuatorCommand_default.actuator_id),
                position |-> Req(p.v, 2, ActuatorCommand_default.position),
                velocity |-> Req(p.v, 3, ActuatorCommand_default.velocity),
                effort |-> Req(p.v, 4, ActuatorCommand_default.effort)])
\* A required text field: the last one written, or the empty text.
ReqText(fields, tag) ==
    LET ps == Payloads(fields, tag)
    IN IF ps = <<>> THEN Ok("") ELSE BytesStr(ps[Len(ps)])
DecKRecHeader(b) ==
    LET p == ParseFields(b)
    IN IF ~p.ok \/ ~ScalarsOk(p.v, {5, 6}) THEN DecodeFailure
       ELSE LET u == ReqText(p.v, 1)
                t == ReqText(p.v, 2)
                rp == ReqText(p.v, 3)
                rs == ReqText(p.v, 4)
                cs == LET ps == Payloads(p.v, 7)
                      IN Repeated([i \in 1..Len(ps) |-> DecActuatorConfig(ps[i])])
            IN IF ~(u.ok /\ t.ok /\ rp.ok /\ rs.ok /\ cs.ok) THEN DecodeFailure
               ELSE Ok([uuid |-> u.v, task |-> t.v, robot_platform |-> rp.v,
                        robot_serial |-> rs.v,
                        start_timestamp |-> Req(p.v, 5, 0),
                        end_timestamp |-> Req(p.v, 6, 0),
                        actuator_configs |-> cs.v])
DecKRecFrame(b) ==
    LET p == ParseFields(b)
    IN IF ~p.ok \/ ~ScalarsOk(p.v, {1, 2, 3}) THEN DecodeFailure
       ELSE LET ss == LET ps == Payloads(p.v, 4)
                      IN Repeated([i \in 1..Len(ps) |-> DecActuatorState(ps[i])])
                c == LET o == LastPayload(p.v, 5)
                     IN OptMsg(o, DecActuatorCommand(unwrap_or(o, <<>>)))
                i == LET o == LastPayload(p.v, 6)
                     IN OptMsg(o, DecImuValues(unwrap_or(o, <<>>)))
            IN IF ~(ss.ok /\ c.ok /\ i.ok) THEN DecodeFailure
               ELSE Ok([video_timestamp |->
                            Req(p.v, 1, KRecFrame_default.video_timestamp),
                        frame_number |->
                            Req(p.v, 2, KRecFrame_default.frame_number),
                        inference_step |->
                            Req(p.v, 3, KRecFrame_default.inference_step),
                        actuator_states |-> ss.v,
                        actuator_commands |-> c.v,
                        imu_values |-> i.v])

\* n length-prefixed blocks that fill b exactly, or a failure.
RECURSIVE ReadDelims(_, _)
ReadDelims(b, n) ==
    IF n = 0 THEN (IF b = <<>> THEN Ok(<<>>) ELSE DecodeFailure)
    ELSE IF Len(b) < 1 \/ Len(b) < 1 + b[1] THEN DecodeFailure
    ELSE LET rest == ReadDelims(SubSeq(b, 2 + b[1], Len(b)), n - 1)
         IN IF ~rest.ok THEN DecodeFailure
            ELSE Ok(<<SubSeq(b, 2, 1 + b[1])>> \o rest.v)

\* The recording a byte stream holds, or DecodeFailure: a bad magic number,
\* an unsupported version, cut-short bytes, bytes left over.
Decode(b) ==
    IF Len(b) < 3 \/ b[1] # KRecMagic \/ b[2] # KRecVersion THEN DecodeFailure
    ELSE LET blocks == ReadDelims(SubSeq(b, 4, Len(b)), 1 + b[3])
         IN IF ~blocks.ok THEN DecodeFailure
            ELSE LET h == DecKRecHeader(blocks.v[1])
                     frs == Repeated([i \in 1..b[3] |->
                                        DecKRecFrame(blocks.v[i + 1])])
                 IN IF ~h.ok \/ ~frs.ok THEN DecodeFailure
                    ELSE Ok([header |-> h.v, frames |-> frs.v])

(***************************************************************************)
(* The file system.  A path is the sequence of the pieces of its name, so  *)
(* that format!("{}.tmp.krec", output_path) is output_path with one more   *)
(* piece.  A path holds nothing, a directory, or a file with its bytes.    *)
(***************************************************************************)
Absent == [kind |-> "absent", bytes |-> <<>>]
Dir == [kind |-> "dir", bytes |-> <<>>]
File(b) == [kind |-> "file", bytes |-> b]

\* format!("{}.tmp.krec", output_path)
TempPath(output_path) == output_path \o <<".tmp.krec">>

RecPath == <<"rec.krec">>
MissingPath == <<"missing">>
VideoPath == <<"video.mp4">>
OutPath == <<"out.mkv">>
OutPath2 == <<"other.mkv">>
Paths == {RecPath, MissingPath, VideoPath, OutPath, TempPath(OutPath),
          OutPath2, TempPath(OutPath2)}

\* A video file starts with the mark of its container format; only the
\* supported container accepts an attached data stream.
VideoMagic == 86
OtherMagic == 79
GoodVideo == <<VideoMagic, 7, 8, 9>>
BadVideo == <<OtherMagic, 7, 8>>
AcceptsAttachment(video) == video # <<>> /\ video[1] = VideoMagic

\* An operation's effect on the file system and what it returns.
Outcome(f, r) == [fs |-> f, res |-> r]

\* The text of a std::io::Error, as its Display prints it: the message of the
\* operating system and its error number.
ENOENT == "No such file or directory (os error 2)"
EISDIR == "Is a directory (os error 21)"
EACCES == "Permission denied (os error 13)"

\* std::fs::remove_file(path); fault "io" is a refusal of the file system:
\* the directory of the path cannot be written.  The refusal is met before
\* the kind of what the path holds is looked at.
remove_file(f, path, fault) ==
    IF f[path].kind = "absent" THEN Outcome(f, Err(ENOENT))
    ELSE IF fault = "io" THEN Outcome(f, Err(EACCES))
    ELSE IF f[path].kind = "dir" THEN Outcome(f, Err(EISDIR))
    ELSE Outcome([f EXCEPT ![path] = Absent], Ok(None))

(***************************************************************************)
(* save, load and combine_with_video of the core crate.                    *)
(***************************************************************************)
\* KRec::save(path).  The whole blob is written or the destination is left
\* untouched (fault "io_untouched") or removed (fault "io_removed").
KRec_save(self, f, path, fault) ==
    IF f[path].kind = "dir" THEN Outcome(f, Err("IoFailure"))
    ELSE IF fault = "io_untouched" THEN Outcome(f, Err("IoFailure"))
    ELSE IF fault = "io_removed"
    THEN Outcome([f EXCEPT ![path] = Absent], Err("IoFailure"))
    ELSE Outcome([f EXCEPT ![path] = File(Encode(self))], Ok(None))

\* KRec::load(path)
KRec_load(f, path) ==
    IF f[path].kind = "absent" THEN Err("NotFound")
    ELSE IF f[path].kind = "dir" THEN Err("IoFailure")
    ELSE Decode(f[path].bytes)

\* The bytes of the combined artifact: the video, the recording and the labels.
CombineMagic == 67
CombinedBytes(video, recording, uuid, task) ==
       <<CombineMagic>> \o LenDelim(video) \o LenDelim(recording)
    \o LenDelim(StrBytes(uuid)) \o LenDelim(StrBytes(task))

\* The parts of a combined artifact: the video, the recording and the labels,
\* or DecodeFailure when the bytes are not a combined artifact.
Extract(b) ==
    IF b = <<>> \/ b[1] # CombineMagic THEN DecodeFailure
    ELSE LET blocks == ReadDelims(Tail(b), 4)
         IN IF ~blocks.ok THEN DecodeFailure
            ELSE IF ~BytesStr(blocks.v[3]).ok \/ ~BytesStr(blocks.v[4]).ok
            THEN DecodeFailure
            ELSE Ok([video |-> blocks.v[1], recording |-> blocks.v[2],
                     uuid |-> BytesStr(blocks.v[3]).v,
                     task |-> BytesStr(blocks.v[4]).v])

\* Why the combination fails, or "" when it does not.
CombineError(f, video_path, recording_path, output_path, fault) ==
    IF f[video_path].kind = "absent" \/ f[recording_path].kind = "absent"
    THEN "NotFound"
    ELSE IF f[video_path].kind = "dir" \/ f[recording_path].kind = "dir"
            \/ f[output_path].kind = "dir" \/ fault = "io"
    THEN "IoFailure"
    ELSE IF ~AcceptsAttachment(f[video_path].bytes) THEN "CombineFailure"
    ELSE ""

\* krec_rs::combine_with_video(video_path, recording_path, output_path, uuid,
\* task): writes only output_path; on a failure no file is left there.
krec_combine_with_video(f, video_path, recording_path, output_path, uuid, task, fault) ==
    LET e == CombineError(f, video_path, recording_path, output_path, fault)
    IN IF e # ""
       THEN Outcome(IF f[output_path].kind = "file"
                    THEN [f EXCEPT ![output_path] = Absent] ELSE f,
                    Err(e))
       ELSE Outcome([f EXCEPT ![output_path] =
                        File(CombinedBytes(f[video_path].bytes,
                                           f[recording_path].bytes, uuid, task))],
                    Ok(None))

(***************************************************************************)
(* PyKRec: the binding's recording object (its field `inner`).             *)
(***************************************************************************)
\* PyErr::new::<PyIOError, _>(e.to_string()): the exception the caller gets.
\* Its class is IOError whatever failed; its message is the text of the
\* error.  The text of a std::io::Error is the message of the operating
\* system; the text of an error of the core crate is taken to name the
\* error's kind.
PyIOError(e) == [exc |-> "IOError", msg |-> e]

\* .map_err(|e| PyErr::new::<PyIOError, _>(e.to_string()))
map_err(r) == IF r.ok THEN r ELSE Err(PyIOError(r.err))

\* PyKRec::new(header)
PyKRec_new(header) == Ok(KRec_new(header))

\* Mutants of add_frame: the frame is put first; the frame is inserted by its
\* timestamp; a frame older than the last one is refused.
PyKRec_add_frame_front(self, frame) == [self EXCEPT !.frames = <<frame>> \o @]
PyKRec_add_frame_sorted(self, frame) ==
    LET older == SelectSeq(self.frames, LAMBDA f : f.video_timestamp <= frame.video_timestamp)
        newer == SelectSeq(self.frames, LAMBDA f : f.video_timestamp > frame.video_timestamp)
    IN [self EXCEPT !.frames = older \o <<frame>> \o newer]
PyKRec_add_frame_checked(self, frame) ==
    IF self.frames # <<>>
       /\ frame.video_timestamp < self.frames[Len(self.frames)].video_timestamp
    THEN self
    ELSE KRec_add_frame(self, frame)

\* Mutant of add_frame: the header's end_timestamp follows the appended frame.
PyKRec_add_frame_stamped(self, frame) ==
    [KRec_add_frame(self, frame) EXCEPT
        !.header.end_timestamp = frame.video_timestamp]

\* PyKRec::add_frame(frame): the recording after the call.
PyKRec_add_frame(self, frame) == KRec_add_frame(self, frame)

\* PyKRec::frame_count
frame_count(self) == Len(self.frames)

\* PyKRec::header: a copy of the header.
header(self) == self.header

\* PyKRec::display: what the text shows, field by field.
display(self) ==
    [task |-> self.header.task,
     robot_platform |-> self.header.robot_platform,
     robot_serial |-> self.header.robot_serial,
     uuid |-> self.header.uuid,
     start_timestamp |-> self.header.start_timestamp,
     end_timestamp |-> self.header.end_timestamp,
     configs |-> self.header.actuator_configs,
     frames |-> Len(self.frames),
     time_range |-> IF self.frames = <<>> THEN None
                    ELSE Some(<<self.frames[1].video_timestamp,
                                self.frames[Len(self.frames)].video_timestamp>>),
     first_frame |-> IF self.frames = <<>> THEN None
                     ELSE Some([frame_number |-> self.frames[1].frame_number,
                                inference_step |-> self.frames[1].inference_step,
                                actuator_states |-> Len(self.frames[1].actuator_states),
                                has_commands |-> self.frames[1].actuator_commands # None,
                                has_imu |-> self.frames[1].imu_values # None])]

\* usize arithmetic: a - b.  When b > a, a build with overflow checks (debug)
\* panics and a build without (release) wraps around.  The difference n is
\* written [wrapped |-> FALSE, n |-> n], the wrapped-around value
\* usize::MAX - k is written [wrapped |-> TRUE, n |-> k].
Builds == {"debug", "release"}
usize_sub(a, b, build) ==
    IF a >= b THEN Ok([wrapped |-> FALSE, n |-> a - b])
    ELSE IF build = "debug" THEN Err("attempt to subtract with overflow")
    ELSE Ok([wrapped |-> TRUE, n |-> b - a - 1])

\* PyValueError::new_err(format!("Frame number {} out of range (0-{})", ..))
PyValueError_range(frame_number, upper) ==
    [exc |-> "ValueError", msg |-> "out of range",
     frame_number |-> frame_number, lower |-> 0, upper |-> upper]
\* A Rust panic inside a method, as the caller of the binding sees it.
PanicException(msg) == [exc |-> "PanicException", msg |-> msg]

\* PyKRec::display_frame(frame_number): what the text shows, field by field.
\* Frame i of the code is frames[i + 1] here.
PyKRec_display_frame(self, frame_number, build) ==
    IF frame_number >= Len(self.frames)
    THEN LET upper == usize_sub(Len(self.frames), 1, build)
         IN IF upper.ok THEN Err(PyValueError_range(frame_number, upper.v))
            ELSE Err(PanicException(upper.err))
    ELSE LET fr == self.frames[frame_number + 1]
         IN Ok([frame |-> frame_number,
                video_timestamp |-> fr.video_timestamp,
                frame_number |-> fr.frame_number,
                inference_step |-> fr.inference_step,
                actuator_states |-> fr.actuator_states,
                actuator_commands |-> fr.actuator_commands,
                imu_values |-> fr.imu_values])

\* Mutant of save: the error of the core is dropped.
PyKRec_save_swallow(self, f, path, fault) ==
    Outcome(KRec_save(self, f, path, fault).fs, Ok(None))

\* Mutant of save: a file that exists at path is not overwritten.
PyKRec_save_once(self, f, path, fault) ==
    IF f[path].kind = "file" THEN Outcome(f, Err(PyIOError("IoFailure")))
    ELSE Outcome(KRec_save(self, f, path, fault).fs,
                 map_err(KRec_save(self, f, path, fault).res))

\* PyKRec::save(path)
PyKRec_save(self, f, path, fault) ==
    LET o == KRec_save(self, f, path, fault)
    IN Outcome(o.fs, map_err(o.res))

\* Mutant of load: a failed load gives an empty recording.
PyKRec_load_default(f, path) ==
    LET r == KRec_load(f, path)
    IN IF r.ok THEN r
       ELSE Ok(KRec_new([uuid |-> "", task |-> "", robot_platform |-> "",
                         robot_serial |-> "", start_timestamp |-> 0,
                         end_timestamp |-> 0, actuator_configs |-> <<>>]))

\* PyKRec::load(path)
PyKRec_load(f, path) == map_err(KRec_load(f, path))

\* PyKRec::combine_with_video(video_path, output_path, uuid, task).  The
\* faults name the file-system failures met by the save, the combination and
\* the removal of the temporary file.
PyKRec_combine_with_video(self, f, video_path, output_path, uuid, task, faults) ==
    LET temp_path == TempPath(output_path)
        s == PyKRec_save(self, f, temp_path, faults.save)
        c == krec_combine_with_video(s.fs, video_path, temp_path, output_path,
                                     uuid, task, faults.combine)
        r == remove_file(c.fs, temp_path, faults.remove)
    IN IF ~s.res.ok THEN s
       ELSE IF ~c.res.ok THEN Outcome(c.fs, map_err(c.res))
       ELSE IF ~r.res.ok THEN Outcome(r.fs, map_err(r.res))
       ELSE Outcome(r.fs, Ok(None))

(***************************************************************************)
(* Building a recording from the arguments a caller gives the constructors.*)
(* The arguments of one recording are a record g:                          *)
(*   g.hdr    the text and timestamp fields of the header                  *)
(*   g.cfgs   the arguments of each ActuatorConfig(..) of the header       *)
(*   g.frames per frame: the arguments of KRecFrame(..), of each           *)
(*            ActuatorState(..) added, and the command and IMU values set  *)
(***************************************************************************)
BuildConfig(a) ==
    PyActuatorConfig_new(a.actuator_id, a.kp, a.kd, a.ki, a.max_torque, a.name, a.values).v
BuildState(a) ==
    PyActuatorState_new(a.actuator_id, a.online, a.position, a.velocity, a.torque, a.temperature, a.voltage, a.current, a.values).v
\* The header value handed to KRec(header).
BuildHeader(g) ==
    [uuid |-> g.hdr.uuid, task |-> g.hdr.task,
     robot_platform |-> g.hdr.robot_platform,
     robot_serial |-> g.hdr.robot_serial,
     start_timestamp |-> g.hdr.start_timestamp,
     end_timestamp |-> g.hdr.end_timestamp,
     actuator_configs |-> [i \in 1..Len(g.cfgs) |-> BuildConfig(g.cfgs[i])]]
\* frame.add_actuator_state(s) for every s, in order.
RECURSIVE AddStates(_, _)
AddStates(fr, states) ==
    IF states = <<>> THEN fr
    ELSE AddStates(add_actuator_state(fr, BuildState(Head(states))), Tail(states))
\* KRecFrame(..), add_actuator_state(..)*, set_actuator_commands(..),
\* set_imu_values(..).
BuildFrame(a) ==
    LET f0 == PyKRecFrame_new(a.video_timestamp, a.frame_number, a.inference_step, a.values).v
        f1 == AddStates(f0, a.states)
        f2 == set_actuator_commands(f1, a.cmd)
    IN set_imu_values(f2, a.imu)
\* rec.add_frame(f) for every f, in order.
RECURSIVE AddFrames(_, _)
AddFrames(rec, frames) ==
    IF frames = <<>> THEN rec
    ELSE AddFrames(PyKRec_add_frame(rec, BuildFrame(Head(frames))), Tail(frames))
BuildKRec(g) == AddFrames(PyKRec_new(BuildHeader(g)).v, g.frames)

(***************************************************************************)
(* The inputs of the model.                                                *)
(***************************************************************************)
\* An optional number: unset, set to zero, set to a non-zero value.
OptF == {None, Some(0), Some(1)}

BaseHdr ==
    [uuid |-> "abc-123", task |-> "walk", robot_platform |-> "bot",
     robot_serial |-> "", start_timestamp |-> 0, end_timestamp |-> 3]
BaseCfg ==
    [actuator_id |-> 1, kp |-> Some(10), kd |-> None, ki |-> None,
     max_torque |-> None, name |-> None, values |-> NoValues]
BaseState ==
    [actuator_id |-> 1, online |-> Some(TRUE), position |-> Some(5),
     velocity |-> None, torque |-> None, temperature |-> None,
     voltage |-> None, current |-> None, values |-> NoValues]
\* The arguments of a frame with one actuator state, no command, no IMU values.
BaseFrame(ts) ==
    [video_timestamp |-> Some(ts), frame_number |-> Some(ts),
     inference_step |-> None, values |-> NoValues,
     states |-> <<BaseState>>, cmd |-> None, imu |-> None]
BaseGiven == [hdr |-> BaseHdr, cfgs |-> <<BaseCfg>>, frames |-> <<BaseFrame(0)>>]

\* Every combination of the six optional fields of an actuator state.
StateArgs ==
    {[BaseState EXCEPT !.position = p, !.velocity = v, !.torque = t,
                       !.temperature = c, !.voltage = u, !.current = i] :
        p \in OptF, v \in OptF, t \in OptF, c \in OptF, u \in OptF, i \in OptF}
    \cup {[BaseState EXCEPT !.values =
               Iter(<<FALSE, p, Some(0), None, None, u, None>>)] :
            p \in OptF, u \in OptF}
\* Every combination of the five optional fields of an actuator config.
ConfigArgs ==
    {[BaseCfg EXCEPT !.kp = p, !.kd = d, !.ki = i, !.max_torque = m, !.name = n] :
        p \in OptF, d \in OptF, i \in OptF, m \in OptF,
        n \in {None, Some(""), Some("hip")}}
    \cup {[BaseCfg EXCEPT !.values = Iter(<<p, None, Some(0), None, n>>)] :
            p \in OptF, n \in {None, Some("")}}
\* Commands and IMU values as the caller builds them.
Vec3Objs == {None, Some(PyVec3_new(None, None, None, NoValues).v),
             Some(PyVec3_new(Some(1), None, Some(2), NoValues).v)}
QuatObjs == {None, Some(PyIMUQuaternion_new(None, None, None, None, NoValues).v),
             Some(PyIMUQuaternion_new(Some(0), Some(0), Some(0), Some(0), NoValues).v)}
CmdObjs == {None, Some(PyActuatorCommand_new(1, None, None, None, NoValues).v),
            Some(PyActuatorCommand_new(1, Some(1), Some(0), Some(2), NoValues).v)}
ImuObjs ==
    {None} \cup
    {Some(PyIMUValues_new(a, g, m, q, NoValues).v) :
        a \in Vec3Objs, g \in Vec3Objs, m \in Vec3Objs, q \in QuatObjs}
\* Recordings of 0..MaxFrames frames with any timestamps, in any order.
TimestampSeqs == UNION {[1..n -> 0..2] : n \in 0..MaxFrames}

\* Recordings of every length, with and without configs, states, command and
\* IMU values.
SmallGiven ==
    {[BaseGiven EXCEPT !.frames = [i \in 1..Len(ts) |-> BaseFrame(ts[i])]] :
        ts \in TimestampSeqs}
    \cup {[BaseGiven EXCEPT !.cfgs = <<>>], [BaseGiven EXCEPT !.cfgs = <<BaseCfg, BaseCfg>>],
          [BaseGiven EXCEPT !.frames =
               <<[BaseFrame(1) EXCEPT !.states = <<>>],
                 [BaseFrame(0) EXCEPT !.states = <<BaseState, BaseState>>]>>],
          [BaseGiven EXCEPT !.frames =
               <<[BaseFrame(2) EXCEPT
                    !.cmd = Some(PyActuatorCommand_new(1, Some(1), None, None, NoValues).v),
                    !.imu = Some(PyIMUValues_new(
                                   Some(PyVec3_new(None, None, None, NoValues).v),
                                   None, None,
                                   Some(PyIMUQuaternion_new(None, None, None, None, NoValues).v),
                                   NoValues).v)]>>]}
GivenArgs ==
    {[BaseGiven EXCEPT !.frames = <<[BaseFrame(0) EXCEPT !.states = <<st>>]>>] :
        st \in StateArgs}
    \cup {[BaseGiven EXCEPT !.cfgs = <<c>>] : c \in ConfigArgs}
    \cup {[BaseGiven EXCEPT !.frames =
               <<[BaseFrame(0) EXCEPT !.cmd = c, !.imu = i]>>] :
            c \in CmdObjs, i \in ImuObjs}
    \cup SmallGiven
\* What `given` holds when the recording is built step by step instead.
NoGiven == [hdr |-> BaseHdr, cfgs |-> <<>>, frames |-> <<>>]

(***************************************************************************)
(* State.                                                                  *)
(*   krec     the recording object of the caller (PyKRec.inner)            *)
(*   frame    the frame object of the caller (PyKRecFrame.inner)           *)
(*   fs       the file system                                              *)
(*   ret      the last call: its name, its arguments, what it returned     *)
(* History, read by no operation:                                          *)
(*   appended the frames passed to add_frame, in call order                *)
(*   saved    per path, the recording a successful save wrote there, the   *)
(*            frames appended before that save and whether the file was    *)
(*            cut short afterwards; None when the path holds no save       *)
(*   given    the constructor arguments the recording was built from       *)
(* Calls of combine_with_video that run side by side in several processes: *)
(*   combining per caller, None or Some of the arguments and local         *)
(*            variables of its call and the statement it is at             *)
(***************************************************************************)
VARIABLES krec, frame, fs, ret, appended, saved, given, combining
vars == <<krec, frame, fs, ret, appended, saved, given, combining>>

Call(op, args, res) == [op |-> op, args |-> args, res |-> res]
NoFaults == [save |-> "none", combine |-> "none", remove |-> "none"]
EmptyFs == [p \in Paths |-> Absent]
NoSaves == [p \in Paths |-> None]
\* The processes that call combine_with_video side by side.
Callers == {"a", "b"}
NoCombines == [c \in Callers |-> None]
\* The history of the paths an operation changed is forgotten.
Forget(f, g) == [p \in Paths |-> IF g[p] = f[p] THEN saved[p] ELSE None]

(***************************************************************************)
(* Calls on the caller's frame object and recording object.                *)
(***************************************************************************)
\* frame = KRecFrame(video_timestamp, frame_number, inference_step, values)
new_frame(a) ==
    LET r == PyKRecFrame_new(a.video_timestamp, a.frame_number, a.inference_step, a.values)
    IN /\ frame' = IF r.ok THEN r.v ELSE frame
       /\ ret' = Call("KRecFrame", a, IF r.ok THEN Ok(None) ELSE r)
       /\ UNCHANGED <<krec, fs, appended, saved, given, combining>>

\* IMUQuaternion(x, y, z, w, values)
new_quaternion(x, y, z, w, values) ==
    /\ ret' = Call("IMUQuaternion",
                   [x |-> x, y |-> y, z |-> z, w |-> w, values |-> values],
                   PyIMUQuaternion_new(x, y, z, w, values))
    /\ UNCHANGED <<krec, frame, fs, appended, saved, given, combining>>

\* frame.video_timestamp = value
frame_set_video_timestamp(value) ==
    /\ frame' = set_video_timestamp(frame, value)
    /\ ret' = Call("set_video_timestamp", <<>>, Ok(None))
    /\ UNCHANGED <<krec, fs, appended, saved, given, combining>>

\* frame.frame_number = value
frame_set_frame_number(value) ==
    /\ frame' = set_frame_number(frame, value)
    /\ ret' = Call("set_frame_number", <<>>, Ok(None))
    /\ UNCHANGED <<krec, fs, appended, saved, given, combining>>

\* frame.inference_step = value
frame_set_inference_step(value) ==
    /\ frame' = set_inference_step(frame, value)
    /\ ret' = Call("set_inference_step", <<>>, Ok(None))
    /\ UNCHANGED <<krec, fs, appended, saved, given, combining>>

\* Mutant of frame.add_actuator_state: the recordings the frame was appended
\* to share the frame object and see the new state.
frame_add_actuator_state_shared(state) ==
    /\ Len(frame.actuator_states) < MaxStates
    /\ frame' = add_actuator_state(frame, state)
    /\ krec' = [krec EXCEPT !.frames =
                   [i \in DOMAIN @ |-> IF @[i] = frame THEN frame' ELSE @[i]]]
    /\ ret' = Call("add_actuator_state", <<>>, Ok(None))
    /\ UNCHANGED <<fs, appended, saved, given, combining>>

\* frame.add_actuator_state(state)
frame_add_actuator_state(state) ==
    /\ Len(frame.actuator_states) < MaxStates
    /\ frame' = add_actuator_state(frame, state)
    /\ ret' = Call("add_actuator_state", <<>>, Ok(None))
    /\ UNCHANGED <<krec, fs, appended, saved, given, combining>>

\* frame.clear_actuator_states()
frame_clear_actuator_states ==
    /\ frame' = clear_actuator_states(frame)
    /\ ret' = Call("clear_actuator_states", <<>>, Ok(None))
    /\ UNCHANGED <<krec, fs, appended, saved, given, combining>>

\* frame.set_actuator_commands(commands)
frame_set_actuator_commands(commands) ==
    /\ frame' = set_actuator_commands(frame, commands)
    /\ ret' = Call("set_actuator_commands", <<>>, Ok(None))
    /\ UNCHANGED <<krec, fs, appended, saved, given, combining>>

\* frame.clear_actuator_commands()
frame_clear_actuator_commands ==
    /\ frame' = clear_actuator_commands(frame)
    /\ ret' = Call("clear_actuator_commands", <<>>, Ok(None))
    /\ UNCHANGED <<krec, fs, appended, saved, given, combining>>

\* frame.set_imu_values(imu)
frame_set_imu_values(imu) ==
    /\ frame' = set_imu_values(frame, imu)
    /\ ret' = Call("set_imu_values", <<>>, Ok(None))
    /\ UNCHANGED <<krec, fs, appended, saved, given, combining>>

\* frame.clear_imu_values()
frame_clear_imu_values ==
    /\ frame' = clear_imu_values(frame)
    /\ ret' = Call("clear_imu_values", <<>>, Ok(None))
    /\ UNCHANGED <<krec, fs, appended, saved, given, combining>>

\* krec.add_frame(frame)
add_frame ==
    /\ Len(appended) < MaxFrames
    /\ krec' = PyKRec_add_frame(krec, frame)
    /\ appended' = Append(appended, frame)
    /\ ret' = Call("add_frame", [frame |-> frame, count |-> frame_count(krec)], Ok(None))
    /\ UNCHANGED <<frame, fs, saved, given, combining>>

\* krec.frame_count
get_frame_count ==
    /\ ret' = Call("frame_count", <<>>, Ok(frame_count(krec)))
    /\ UNCHANGED <<krec, frame, fs, appended, saved, given, combining>>

\* krec.header
get_header ==
    /\ ret' = Call("header", <<>>, Ok(header(krec)))
    /\ UNCHANGED <<krec, frame, fs, appended, saved, given, combining>>

\* krec.display()
get_display ==
    /\ ret' = Call("display", <<>>, Ok(display(krec)))
    /\ UNCHANGED <<krec, frame, fs, appended, saved, given, combining>>

\* krec.display_frame(frame_number), in a build of the extension module.
display_frame(frame_number, build) ==
    /\ ret' = Call("display_frame",
                   [frame_number |-> frame_number, build |-> build],
                   PyKRec_display_frame(krec, frame_number, build))
    /\ UNCHANGED <<krec, frame, fs, appended, saved, given, combining>>

\* krec.save(path)
save(path, fault) ==
    LET o == PyKRec_save(krec, fs, path, fault)
    IN /\ fs' = o.fs
       /\ ret' = Call("save", [path |-> path, fault |-> fault], o.res)
       /\ saved' = IF o.res.ok
                   THEN [saved EXCEPT ![path] =
                           Some([r |-> krec, log |-> appended, cut |-> FALSE])]
                   ELSE Forget(fs, o.fs)
       /\ UNCHANGED <<krec, frame, appended, given, combining>>

\* KRec.load(path)
load(path) ==
    /\ ret' = Call("load", [path |-> path], PyKRec_load(fs, path))
    /\ UNCHANGED <<krec, frame, fs, appended, saved, given, combining>>

\* krec.combine_with_video(video_path, output_path, uuid, task)
combine_with_video(video_path, output_path, uuid, task, faults) ==
    LET o == PyKRec_combine_with_video(krec, fs, video_path, output_path, uuid, task, faults)
    IN /\ fs' = o.fs
       /\ ret' = Call("combine_with_video",
                      [video_path |-> video_path, output_path |-> output_path,
                       uuid |-> uuid, task |-> task, faults |-> faults,
                       before |-> fs],
                      o.res)
       /\ saved' = Forget(fs, o.fs)
       /\ UNCHANGED <<krec, frame, appended, given, combining>>

(***************************************************************************)
(* The environment.                                                        *)
(***************************************************************************)
\* The saved file at path loses all but its first n bytes.
truncate(path, n) ==
    /\ fs[path].kind = "file"
    /\ saved[path] # None
    /\ ~saved[path][1].cut
    /\ n < Len(fs[path].bytes)
    /\ fs' = [fs EXCEPT ![path] = File(SubSeq(fs[path].bytes, 1, n))]
    /\ saved' = [saved EXCEPT ![path] = Some([saved[path][1] EXCEPT !.cut = TRUE])]
    /\ ret' = Call("truncate", [path |-> path, n |-> n], Ok(None))
    /\ UNCHANGED <<krec, frame, appended, given, combining>>

\* Somebody puts a video file at path.  A call of combine_with_video that is
\* under way keeps, in `before`, what every path held when it was last
\* written by somebody else than the call.
put_video(path, video) ==
    /\ fs[path] # File(video)
    /\ fs' = [fs EXCEPT ![path] = File(video)]
    /\ saved' = [saved EXCEPT ![path] = None]
    /\ ret' = Call("put_video", [path |-> path], Ok(None))
    /\ combining' = [c \in DOMAIN combining |->
                        IF combining[c] = None THEN None
                        ELSE Some([combining[c][1] EXCEPT
                                     !.before = [@ EXCEPT ![path] = File(video)]])]
    /\ UNCHANGED <<krec, frame, appended, given>>

(***************************************************************************)
(* combine_with_video statement by statement, as it runs while other       *)
(* processes act on the same file system: save to the temporary path, the  *)
(* combination of the core, the removal of the temporary file.  A call     *)
(* holds the interpreter lock of its own process only.                     *)
(***************************************************************************)
\* The recording object of each caller.
CallerKRec(c) ==
    IF c = "a" THEN krec
    ELSE BuildKRec([BaseGiven EXCEPT !.hdr.uuid = "", !.frames = <<>>])

\* The arguments of the call a caller is in, as `ret` reports them.
CombineCall(c, o) ==
    [caller |-> c, video_path |-> o.video_path, output_path |-> o.output_path,
     uuid |-> o.uuid, task |-> o.task, faults |-> o.faults, before |-> o.before]

\* let temp_path = format!("{}.tmp.krec", output_path); self.save(&temp_path)?;
combine_save(c, video_path, output_path, uuid, task, faults) ==
    LET temp_path == TempPath(output_path)
        s == PyKRec_save(CallerKRec(c), fs, temp_path, faults.save)
        o == [self |-> CallerKRec(c), video_path |-> video_path,
              output_path |-> output_path, uuid |-> uuid, task |-> task,
              faults |-> faults, temp_path |-> temp_path, before |-> fs, pc |-> "combine"]
    IN /\ combining[c] = None
       /\ fs' = s.fs
       /\ saved' = Forget(fs, s.fs)
       /\ IF s.res.ok
          THEN /\ combining' = [combining EXCEPT ![c] = Some(o)]
               /\ ret' = Call("combine_save", CombineCall(c, o), Ok(None))
          ELSE /\ UNCHANGED combining
               /\ ret' = Call("combine_with_video", CombineCall(c, o), s.res)
       /\ UNCHANGED <<krec, frame, appended, given>>

\* krec_rs::combine_with_video(video_path, &temp_path, output_path, uuid, task)
\*     .map_err(..)?;
combine_core(c) ==
    /\ combining[c] # None
    /\ combining[c][1].pc = "combine"
    /\ LET o == combining[c][1]
           r == krec_combine_with_video(fs, o.video_path, o.temp_path,
                                        o.output_path, o.uuid, o.task,
                                        o.faults.combine)
       IN /\ fs' = r.fs
          /\ saved' = Forget(fs, r.fs)
          /\ IF r.res.ok
             THEN /\ combining' = [combining EXCEPT ![c] = Some([o EXCEPT !.pc = "remove"])]
                  /\ ret' = Call("combine_core", CombineCall(c, o), Ok(None))
             ELSE /\ combining' = [combining EXCEPT ![c] = None]
                  /\ ret' = Call("combine_with_video", CombineCall(c, o), map_err(r.res))
    /\ UNCHANGED <<krec, frame, appended, given>>

\* std::fs::remove_file(&temp_path).map_err(..)?; Ok(())
combine_remove_file(c) ==
    /\ combining[c] # None
    /\ combining[c][1].pc = "remove"
    /\ LET o == combining[c][1]
           r == remove_file(fs, o.temp_path, o.faults.remove)
       IN /\ fs' = r.fs
          /\ saved' = Forget(fs, r.fs)
          /\ ret' = Call("combine_with_video", CombineCall(c, o), map_err(r.res))
    /\ combining' = [combining EXCEPT ![c] = None]
    /\ UNCHANGED <<krec, frame, appended, given>>

(***************************************************************************)
(* Spec: a caller builds a recording frame by frame, saves, loads and      *)
(* combines it.                                                            *)
(***************************************************************************)
SessionHeaders ==
    {BuildHeader(BaseGiven),
     BuildHeader([BaseGiven EXCEPT !.hdr.uuid = "", !.cfgs = <<>>])}
FrameArgs ==
    {[video_timestamp |-> None, frame_number |-> None, inference_step |-> None,
      values |-> NoValues],
     [video_timestamp |-> Some(1), frame_number |-> Some(1),
      inference_step |-> Some(1), values |-> NotIterable],
     [video_timestamp |-> None, frame_number |-> None, inference_step |-> None,
      values |-> Iter(<<2, 2>>)]}

Init ==
    /\ \E h \in SessionHeaders : krec = PyKRec_new(h).v
    /\ frame = PyKRecFrame_new(None, None, None, NoValues).v
    /\ fs = [EmptyFs EXCEPT ![VideoPath] = File(GoodVideo)]
    /\ ret = Call("KRec", <<>>, Ok(None))
    /\ appended = <<>>
    /\ saved = NoSaves
    /\ combining = NoCombines
    /\ given = NoGiven

Next ==
    \/ \E a \in FrameArgs : new_frame(a)
    \/ add_frame
    \/ get_frame_count
    \/ get_header
    \/ get_display
    \/ save(RecPath, "none")
    \/ load(RecPath)
    \/ combine_with_video(VideoPath, OutPath, "xyz", "grasp", NoFaults)

Spec == Init /\ [][Next]_vars

(***************************************************************************)
(* SpecCodec: a recording built from any of the constructor arguments is   *)
(* saved, possibly cut short on disk, and loaded.                          *)
(***************************************************************************)
SaveFaults == {"none", "io_untouched", "io_removed"}

InitCodec ==
    /\ given \in GivenArgs
    /\ krec = BuildKRec(given)
    /\ frame = PyKRecFrame_new(None, None, None, NoValues).v
    /\ fs = EmptyFs
    /\ ret = Call("KRec", <<>>, Ok(None))
    /\ appended = krec.frames
    /\ saved = NoSaves
    /\ combining = NoCombines

NextCodec ==
    \/ \E f \in SaveFaults : save(RecPath, f)
    \/ \E p \in {RecPath, MissingPath} : load(p)

SpecCodec == InitCodec /\ [][NextCodec]_vars

(***************************************************************************)
(* SpecTrunc: a saved recording is cut short on disk at any length and     *)
(* loaded.                                                                 *)
(***************************************************************************)
InitTrunc ==
    /\ given \in SmallGiven
    /\ krec = BuildKRec(given)
    /\ frame = PyKRecFrame_new(None, None, None, NoValues).v
    /\ fs = EmptyFs
    /\ ret = Call("KRec", <<>>, Ok(None))
    /\ appended = krec.frames
    /\ saved = NoSaves
    /\ combining = NoCombines

NextTrunc ==
    \/ save(RecPath, "none")
    \/ \E n \in 0..(Len(fs[RecPath].bytes) - 1) : truncate(RecPath, n)
    \/ \E p \in {RecPath, MissingPath} : load(p)

SpecTrunc == InitTrunc /\ [][NextTrunc]_vars

(***************************************************************************)
(* SpecCombine: recordings are combined with a video, with and without     *)
(* failures of the file system, a missing video, a video of an unsupported *)
(* container and a video that lies at the path of the temporary file,      *)
(* while somebody else puts video files before, between and after the      *)
(* statements of the call.                                                 *)
(***************************************************************************)
FaultSets ==
    [save : SaveFaults, combine : {"none", "io"}, remove : {"none", "io"}]
CombineGiven ==
    {[BaseGiven EXCEPT !.frames = <<>>], BaseGiven,
     [BaseGiven EXCEPT !.frames = <<BaseFrame(0), BaseFrame(1)>>]}

InitCombine ==
    /\ given \in CombineGiven
    /\ krec = BuildKRec(given)
    /\ frame = PyKRecFrame_new(None, None, None, NoValues).v
    /\ \/ fs = [EmptyFs EXCEPT ![VideoPath] = File(GoodVideo)]
       \/ fs = [EmptyFs EXCEPT ![VideoPath] = Absent]
       \/ fs = [EmptyFs EXCEPT ![VideoPath] = File(BadVideo)]
    /\ ret = Call("KRec", <<>>, Ok(None))
    /\ appended = krec.frames
    /\ saved = NoSaves
    /\ combining = NoCombines

\* The failures the combination and the removal of the temporary file meet.
CombineFaults ==
    [save : {"none"}, combine : {"none", "io"}, remove : {"none", "io"}]

NextCombine ==
    \/ \E faults \in CombineFaults :
           combine_save("a", VideoPath, OutPath, "xyz", "grasp", faults)
    \/ combine_core("a")
    \/ combine_remove_file("a")
    \/ \E p \in {VideoPath, TempPath(OutPath)} : put_video(p, GoodVideo)
    \/ \E faults \in CombineFaults :
           combine_save("a", TempPath(OutPath), OutPath, "xyz", "grasp", faults)

SpecCombine == InitCombine /\ [][NextCombine]_vars

(***************************************************************************)
(* SpecErrors: save, load and combine_with_video meet every failure: a     *)
(* missing path, a directory in place of a file, a failing file system, a  *)
(* cut-short or foreign recording file, a video of an unsupported          *)
(* container.                                                              *)
(***************************************************************************)
InitErrors ==
    /\ given \in CombineGiven
    /\ krec = BuildKRec(given)
    /\ frame = PyKRecFrame_new(None, None, None, NoValues).v
    /\ \E r \in {Absent, Dir, File(Encode(BuildKRec(BaseGiven))),
                  File(SubSeq(Encode(BuildKRec(BaseGiven)), 1, 5)),
                  File(GoodVideo)},
          v \in {Absent, Dir, File(GoodVideo), File(BadVideo)},
          o \in {Absent, Dir} :
           fs = [EmptyFs EXCEPT ![RecPath] = r, ![VideoPath] = v, ![OutPath] = o]
    /\ ret = Call("KRec", <<>>, Ok(None))
    /\ appended = krec.frames
    /\ saved = NoSaves
    /\ combining = NoCombines

NextErrors ==
    \/ \E f \in SaveFaults : save(RecPath, f)
    \/ \E p \in {RecPath, MissingPath} : load(p)
    \/ \E faults \in FaultSets :
           combine_with_video(VideoPath, OutPath, "xyz", "grasp", faults)

SpecErrors == InitErrors /\ [][NextErrors]_vars

(***************************************************************************)
(* SpecConc: two processes combine their recordings with one video, each   *)
(* into one of two output paths.                                           *)
(***************************************************************************)
InitConc ==
    /\ given = BaseGiven
    /\ krec = BuildKRec(given)
    /\ frame = PyKRecFrame_new(None, None, None, NoValues).v
    /\ fs = [EmptyFs EXCEPT ![VideoPath] = File(GoodVideo)]
    /\ ret = Call("KRec", <<>>, Ok(None))
    /\ appended = krec.frames
    /\ saved = NoSaves
    /\ combining = NoCombines

NextConc ==
    \/ \E c \in Callers, output_path \in {OutPath, OutPath2} :
           combine_save(c, VideoPath, output_path, "xyz", "grasp", NoFaults)
    \/ \E c \in Callers : combine_core(c)
    \/ \E c \in Callers : combine_remove_file(c)

SpecConc == InitConc /\ [][NextConc]_vars

(***************************************************************************)
(* SpecQuat: quaternions are built from every combination of given and     *)
(* omitted components, unit and not, by name and from an iterable.         *)
(***************************************************************************)
\* A component: omitted, zero, one, two.
QuatF == {None, Some(0), Some(1), Some(2)}
QuatValues ==
    {NoValues, NotIterable, Iter(<<0, 0, 0, 0>>), Iter(<<2, 0, 1, 2>>),
     Iter(<<0, 0, 1>>), Iter(<<>>)}

InitQuat ==
    /\ given = BaseGiven
    /\ krec = BuildKRec(given)
    /\ frame = PyKRecFrame_new(None, None, None, NoValues).v
    /\ fs = EmptyFs
    /\ ret = Call("KRec", <<>>, Ok(None))
    /\ appended = krec.frames
    /\ saved = NoSaves
    /\ combining = NoCombines

NextQuat ==
    \E x \in QuatF, y \in QuatF, z \in QuatF, w \in QuatF, values \in QuatValues :
        new_quaternion(x, y, z, w, values)

SpecQuat == InitQuat /\ [][NextQuat]_vars

(***************************************************************************)
(* SpecOwn: the caller appends its frame object to the recording and goes  *)
(* on changing the object with every setter of the frame.                  *)
(***************************************************************************)
InitOwn ==
    /\ given = [BaseGiven EXCEPT !.frames = <<>>]
    /\ krec = BuildKRec(given)
    /\ frame = PyKRecFrame_new(None, None, None, NoValues).v
    /\ fs = EmptyFs
    /\ ret = Call("KRec", <<>>, Ok(None))
    /\ appended = <<>>
    /\ saved = NoSaves
    /\ combining = NoCombines

NextOwn ==
    \/ (Len(appended) < MaxOwned /\ add_frame)
    \/ frame_set_video_timestamp(1)
    \/ frame_set_frame_number(1)
    \/ frame_set_inference_step(1)
    \/ frame_add_actuator_state(BuildState(BaseState))
    \/ frame_clear_actuator_states
    \/ frame_set_actuator_commands(Some(PyActuatorCommand_new(1, Some(1), None, None, NoValues).v))
    \/ frame_clear_actuator_commands
    \/ frame_set_imu_values(Some(PyIMUValues_new(None, None, None, None, NoValues).v))
    \/ frame_clear_imu_values

SpecOwn == InitOwn /\ [][NextOwn]_vars

(***************************************************************************)
(* SpecDisplay: display_frame is called with every frame number from 0 to  *)
(* past the end on recordings of every length, the empty one included.     *)
(***************************************************************************)
InitDisplay ==
    /\ given \in SmallGiven
    /\ krec = BuildKRec(given)
    /\ frame = PyKRecFrame_new(None, None, None, NoValues).v
    /\ fs = EmptyFs
    /\ ret = Call("KRec", <<>>, Ok(None))
    /\ appended = krec.frames
    /\ saved = NoSaves
    /\ combining = NoCombines

NextDisplay ==
    \E frame_number \in 0..(MaxFrames + 1), build \in Builds :
        display_frame(frame_number, build)

SpecDisplay == InitDisplay /\ [][NextDisplay]_vars

(***************************************************************************)
(* Properties.                                                             *)
(***************************************************************************)
\* The last call was a load of a path that holds a whole saved recording.
LoadedWhole ==
    /\ ret.op = "load"
    /\ saved[ret.args.path] # None
    /\ ~saved[ret.args.path][1].cut
\* The last call was a load of a saved recording that was cut short.
LoadedCut ==
    /\ ret.op = "load"
    /\ saved[ret.args.path] # None
    /\ saved[ret.args.path][1].cut
IsPrefix(a, b) == Len(a) <= Len(b) /\ SubSeq(b, 1, Len(a)) = a

\* C1: loading a path a recording r was saved to succeeds and returns a
\* recording equal to r: the same header, the same number of frames, the
\* same frames.
C1_RoundTrip ==
    LoadedWhole =>
        /\ ret.res.ok
        /\ ret.res.v.header = saved[ret.args.path][1].r.header
        /\ Len(ret.res.v.frames) = Len(saved[ret.args.path][1].r.frames)
        /\ ret.res.v.frames = saved[ret.args.path][1].r.frames
\* A recording with a config, a command, IMU values and a state that has set,
\* zero and unset optional fields was saved and loaded.
C1_Witness ==
    /\ LoadedWhole
    /\ ret.res.ok
    /\ ret.res.v = krec
    /\ Len(krec.header.actuator_configs) = 1
    /\ Len(krec.frames) = 1
    /\ krec.frames[1].actuator_commands # None
    /\ krec.frames[1].imu_values # None
    /\ krec.frames[1].imu_values[1].accel = Some(Vec3_default)
    /\ krec.frames[1].imu_values[1].gyro = None
    /\ Len(krec.frames[1].actuator_states) = 1
    /\ krec.frames[1].actuator_states[1].position = Some(5)

\* C2: the i-th frame of a loaded recording is the i-th frame appended before
\* the save; none is dropped, duplicated or moved.
C2_FrameOrder ==
    LoadedWhole =>
        /\ ret.res.ok
        /\ Len(ret.res.v.frames) = Len(saved[ret.args.path][1].log)
        /\ \A i \in 1..Len(saved[ret.args.path][1].log) :
               ret.res.v.frames[i] = saved[ret.args.path][1].log[i]
\* Two different frames were appended, saved and loaded.
C2_Witness ==
    /\ LoadedWhole
    /\ ret.res.ok
    /\ Len(ret.res.v.frames) = 2
    /\ ret.res.v.frames[1].video_timestamp = 1
    /\ ret.res.v.frames[2].video_timestamp = 0
    /\ saved[ret.args.path][1].log = ret.res.v.frames

\* The argument a constructor was given for a field: the item of the iterable
\* when one was given, the named argument otherwise.
ArgOf(a, field, item) ==
    IF a.values.kind = "iter" THEN a.values.items[item] ELSE a[field]
\* Unset stays absent, zero stays present with value zero.
Kept(arg, got) ==
    /\ (arg = None => got = None)
    /\ (arg = Some(0) => got = Some(0))
KeptVec(arg, got) ==
    /\ (arg = None => got = None)
    /\ (arg = Some(Vec3_default) => got = Some(Vec3_default))
KeptState(a, got) ==
    /\ Kept(ArgOf(a, "position", 2), got.position)
    /\ Kept(ArgOf(a, "velocity", 3), got.velocity)
    /\ Kept(ArgOf(a, "torque", 4), got.torque)
    /\ Kept(ArgOf(a, "temperature", 5), got.temperature)
    /\ Kept(ArgOf(a, "voltage", 6), got.voltage)
    /\ Kept(ArgOf(a, "current", 7), got.current)
KeptConfig(a, got) ==
    /\ Kept(ArgOf(a, "kp", 1), got.kp)
    /\ Kept(ArgOf(a, "kd", 2), got.kd)
    /\ Kept(ArgOf(a, "ki", 3), got.ki)
    /\ Kept(ArgOf(a, "max_torque", 4), got.max_torque)
    /\ (ArgOf(a, "name", 5) = None => got.name = None)
    /\ (ArgOf(a, "name", 5) = Some("") => got.name = Some(""))
KeptFrame(a, got) ==
    /\ Len(got.actuator_states) = Len(a.states)
    /\ \A j \in 1..Len(a.states) : KeptState(a.states[j], got.actuator_states[j])
    /\ (a.cmd = None <=> got.actuator_commands = None)
    /\ (a.cmd = Some(ActuatorCommand_default) =>
            got.actuator_commands = Some(ActuatorCommand_default))
    /\ (a.imu = None <=> got.imu_values = None)
    /\ a.imu # None =>
         /\ KeptVec(a.imu[1].accel, got.imu_values[1].accel)
         /\ KeptVec(a.imu[1].gyro, got.imu_values[1].gyro)
         /\ KeptVec(a.imu[1].mag, got.imu_values[1].mag)
         /\ (a.imu[1].quaternion = None <=> got.imu_values[1].quaternion = None)
         /\ (a.imu[1].quaternion = Some([x |-> 0, y |-> 0, z |-> 0, w |-> 0]) =>
                got.imu_values[1].quaternion = Some([x |-> 0, y |-> 0, z |-> 0, w |-> 0]))
\* C3: after save then load, every optional field the caller left unset is
\* absent and every optional field the caller set to zero is present with
\* value zero.
C3_AbsentOrZero ==
    LoadedWhole =>
        /\ ret.res.ok
        /\ Len(ret.res.v.header.actuator_configs) = Len(given.cfgs)
        /\ \A i \in 1..Len(given.cfgs) :
               KeptConfig(given.cfgs[i], ret.res.v.header.actuator_configs[i])
        /\ Len(ret.res.v.frames) = Len(given.frames)
        /\ \A i \in 1..Len(given.frames) :
               KeptFrame(given.frames[i], ret.res.v.frames[i])
\* A state built with position unset, velocity zero and torque non-zero was
\* saved and loaded.
C3_Witness ==
    /\ LoadedWhole
    /\ ret.res.ok
    /\ Len(given.frames) = 1
    /\ Len(given.frames[1].states) = 1
    /\ given.frames[1].states[1].values = NoValues
    /\ given.frames[1].states[1].position = None
    /\ given.frames[1].states[1].velocity = Some(0)
    /\ given.frames[1].states[1].torque = Some(1)
    /\ ret.res.v.frames[1].actuator_states[1].position = None
    /\ ret.res.v.frames[1].actuator_states[1].velocity = Some(0)

\* C4: load of a path that does not exist fails with NotFound, load of a saved
\* file cut to its first N bytes fails with DecodeFailure; no recording is
\* returned.
C4_LoadFails ==
    /\ (ret.op = "load" /\ fs[ret.args.path].kind = "absent") =>
           (~ret.res.ok /\ ret.res.err.msg = "NotFound")
    /\ LoadedCut => (~ret.res.ok /\ ret.res.err.msg = "DecodeFailure")
\* A two-frame recording cut after its first frame was loaded.
C4_Witness ==
    /\ LoadedCut
    /\ ~ret.res.ok
    /\ Len(saved[ret.args.path][1].r.frames) = 2
    /\ fs[ret.args.path].bytes =
         SubSeq(Encode(saved[ret.args.path][1].r), 1,
                Len(Encode(saved[ret.args.path][1].r))
                - Len(LenDelim(EncKRecFrame(saved[ret.args.path][1].r.frames[2]))))

\* C9: add_frame succeeds, the frame count grows by exactly one and the frame
\* is the last one, whatever its timestamps.
C9_AddFrame ==
    ret.op = "add_frame" =>
        /\ ret.res.ok
        /\ frame_count(krec) = ret.args.count + 1
        /\ krec.frames[frame_count(krec)] = ret.args.frame
\* A frame with a lower video_timestamp and frame_number than the one before
\* it was appended.
C9_Witness ==
    /\ ret.op = "add_frame"
    /\ frame_count(krec) = 2
    /\ krec.frames[2] = ret.args.frame
    /\ krec.frames[2].video_timestamp < krec.frames[1].video_timestamp
    /\ krec.frames[2].frame_number < krec.frames[1].frame_number

\* C10: every operation leaves the frames appended so far in place: the frame
\* sequence before a step is a prefix of the one after it.
C10_AppendOnly == [][IsPrefix(krec.frames, krec'.frames)]_vars
\* A recording of two frames was saved and combined with a video.
C10_Witness ==
    /\ ret.op = "combine_with_video"
    /\ ret.res.ok
    /\ frame_count(krec) = 2
    /\ krec.frames[1] # krec.frames[2]
    /\ saved[RecPath] # None

\* C5: when combine_with_video returns an error, no file exists at
\* output_path.
C5_NoOutputOnError ==
    (ret.op = "combine_with_video" /\ ~ret.res.ok) =>
        fs[ret.args.output_path].kind # "file"

\* C6: when combine_with_video returns, with or without an error, the
\* intermediate file no longer exists.
C6_TempRemoved ==
    ret.op = "combine_with_video" =>
        fs[TempPath(ret.args.output_path)].kind # "file"

\* C7: combine_with_video leaves a file at video_path as it was, and every
\* other path than output_path and its own intermediate file too.
C7_InputsUntouched ==
    ret.op = "combine_with_video" =>
        /\ (ret.args.before[ret.args.video_path].kind = "file" =>
               fs[ret.args.video_path] = ret.args.before[ret.args.video_path])
        /\ \A p \in Paths \ {ret.args.output_path, TempPath(ret.args.output_path)} :
               fs[p] = ret.args.before[p]

\* C11: the header of a recording is fixed at construction: no step of
\* add_frame, the accessors, display, save, load or combine_with_video changes
\* a header field, whatever uuid and task labels combine_with_video is given.
C11_HeaderFixed == [][krec'.header = krec.header]_vars
\* A recording with frames was combined with a video under labels that differ
\* from its header's uuid and task.
C11_Witness ==
    /\ ret.op = "combine_with_video"
    /\ ret.res.ok
    /\ ret.args.uuid # krec.header.uuid
    /\ ret.args.task # krec.header.task
    /\ krec.header = BuildHeader(BaseGiven)
    /\ frame_count(krec) = 2
    /\ saved[RecPath] # None

\* The error kinds of the persistence codec and the video combiner.
ErrorKinds ==
    {"NotFound", "IoFailure", "DecodeFailure", "EncodeFailure", "CombineFailure"}
\* The kind of the failure a call meets, read from the file system the call
\* ran on and the faults it met; "" when it meets none.
FailureOfSave(f, path, fault) ==
    IF f[path].kind = "dir" \/ fault # "none" THEN "IoFailure" ELSE ""
FailureOfLoad(f, path) ==
    IF f[path].kind = "absent" THEN "NotFound"
    ELSE IF f[path].kind = "dir" THEN "IoFailure"
    ELSE IF ~Decode(f[path].bytes).ok THEN "DecodeFailure"
    ELSE ""
FailureOfCombine(f, video_path, output_path, faults) ==
    IF FailureOfSave(f, TempPath(output_path), faults.save) # "" THEN "IoFailure"
    ELSE IF f[video_path].kind = "absent" THEN "NotFound"
    ELSE IF f[video_path].kind = "dir" \/ f[output_path].kind = "dir"
            \/ faults.combine = "io"
    THEN "IoFailure"
    ELSE IF f[video_path].bytes[1] # VideoMagic THEN "CombineFailure"
    ELSE IF faults.remove = "io" THEN "IoFailure"
    ELSE ""
FailureOfCall ==
    IF ret.op = "save" THEN FailureOfSave(fs, ret.args.path, ret.args.fault)
    ELSE IF ret.op = "load" THEN FailureOfLoad(fs, ret.args.path)
    ELSE IF ret.op = "combine_with_video"
    THEN FailureOfCombine(ret.args.before, ret.args.video_path,
                          ret.args.output_path, ret.args.faults)
    ELSE ""

\* C12: a save, load or combine_with_video that meets a failure raises an
\* exception, never returns normally; and failures of different kinds raise
\* exceptions of different classes: the exception of the failed call differs
\* in class from the exception of every load that fails with another kind on
\* the same file system, so that the caller can tell a NotFound from an
\* IoFailure, a DecodeFailure, an EncodeFailure or a CombineFailure by the
\* exception it catches.
C12_ErrorKinds ==
    FailureOfCall # "" =>
        /\ ~ret.res.ok
        /\ \A p \in Paths :
               FailureOfLoad(fs, p) \notin {"", FailureOfCall} =>
                   PyKRec_load(fs, p).err.exc # ret.res.err.exc

\* The labels and paths of a combine_with_video call.
CombineArgs(a) == <<a.video_path, a.output_path, a.uuid, a.task, a.faults>>
\* C13: a save that directly follows a successful save of the same recording
\* to the same path succeeds and leaves the file system as the first save
\* left it; a combine_with_video that directly follows a successful one with
\* the same video, recording, output path, uuid and task succeeds and leaves
\* the file system, the output file included, as the first one left it.
C13_Idempotent ==
    [][/\ (/\ ret.op = "save" /\ ret.res.ok
           /\ ret'.op = "save" /\ ret'.args.path = ret.args.path
           /\ ret'.args.fault = ret.args.fault
           /\ krec' = krec)
          => (ret'.res.ok /\ fs' = fs)
       /\ (/\ ret.op = "combine_with_video" /\ ret.res.ok
           /\ ret'.op = "combine_with_video"
           /\ CombineArgs(ret'.args) = CombineArgs(ret.args)
           /\ krec' = krec)
          => (ret'.res.ok /\ fs' = fs)]_vars
\* combine_with_video succeeded on an output path that held, from an earlier
\* call, the very output it leaves, next to a saved recording.
C13_Witness ==
    /\ ret.op = "combine_with_video"
    /\ ret.res.ok
    /\ ret.args.before[ret.args.output_path].kind = "file"
    /\ ret.args.before = fs
    /\ fs[RecPath] = File(Encode(krec))
    /\ frame_count(krec) = 1

\* C14: two combine operations in progress never have the same intermediate
\* file, and the intermediate file an operation has saved holds that
\* operation's recording until the operation itself has combined it: no
\* other operation overwrites or deletes it.
C14_UniqueTemp ==
    /\ \A c, d \in Callers :
          (c # d /\ combining[c] # None /\ combining[d] # None) =>
              combining[c][1].temp_path # combining[d][1].temp_path
    /\ \A c \in Callers :
          (combining[c] # None /\ combining[c][1].pc = "combine") =>
              fs[combining[c][1].temp_path] = File(Encode(combining[c][1].self))

\* C15: after a successful combine_with_video a file exists at output_path
\* from which the whole video, the whole recording and the uuid and task
\* labels of the call are extracted again, the recording decoding to the
\* caller's recording.
C15_CombinedOutput ==
    (ret.op = "combine_with_video" /\ ret.res.ok) =>
        /\ fs[ret.args.output_path].kind = "file"
        /\ Extract(fs[ret.args.output_path].bytes).ok
        /\ Extract(fs[ret.args.output_path].bytes).v.video
             = ret.args.before[ret.args.video_path].bytes
        /\ Extract(fs[ret.args.output_path].bytes).v.uuid = ret.args.uuid
        /\ Extract(fs[ret.args.output_path].bytes).v.task = ret.args.task
        /\ Decode(Extract(fs[ret.args.output_path].bytes).v.recording) = Ok(krec)

\* C16: a quaternion built with no component given is (0, 0, 0, 1); a
\* component given by name or in an iterable of four is stored as given,
\* whatever the norm of the quaternion, and a component omitted by name is
\* 0 for x, y, z and 1 for w.
C16_QuaternionDefault ==
    ret.op = "IMUQuaternion" =>
        /\ ret.args.values.kind # "iter" =>
              /\ ret.res.ok
              /\ ret.res.v.x = (IF ret.args.x = None THEN 0 ELSE ret.args.x[1])
              /\ ret.res.v.y = (IF ret.args.y = None THEN 0 ELSE ret.args.y[1])
              /\ ret.res.v.z = (IF ret.args.z = None THEN 0 ELSE ret.args.z[1])
              /\ ret.res.v.w = (IF ret.args.w = None THEN 1 ELSE ret.args.w[1])
        /\ (ret.args.values.kind = "iter" /\ Len(ret.args.values.items) = 4) =>
              /\ ret.res.ok
              /\ <<ret.res.v.x, ret.res.v.y, ret.res.v.z, ret.res.v.w>>
                   = ret.args.values.items
\* A quaternion was built with no component given.
C16_Witness ==
    /\ ret.op = "IMUQuaternion"
    /\ ret.args = [x |-> None, y |-> None, z |-> None, w |-> None,
                   values |-> NoValues]
    /\ ret.res = Ok([x |-> 0, y |-> 0, z |-> 0, w |-> 1])

\* C17: the recording owns copies of what it was given: whatever the caller
\* does to its frame object after add_frame, the stored frames are the frames
\* as they were when they were appended, and the header is the header the
\* recording was built from.
C17_OwnsCopies ==
    /\ krec.frames = appended
    /\ krec.header = BuildHeader(given)
\* After add_frame the caller changed the timestamp, the states, the command
\* and the IMU values of its frame object; the stored frame has none of it.
C17_Witness ==
    /\ Len(krec.frames) = 1
    /\ krec.frames[1] = KRecFrame_default
    /\ frame.video_timestamp = 1
    /\ Len(frame.actuator_states) = 1
    /\ frame.actuator_commands # None
    /\ frame.imu_values # None
    /\ ret.op = "set_imu_values"

\* C18: display_frame(n) returns the description of frame n when n is below
\* the frame count; otherwise it raises ValueError, and the upper bound the
\* error reports is computed without underflow or abort: a number below the
\* frame count, never a wrapped-around one, also for a recording of zero
\* frames.
C18_DisplayFrameRange ==
    ret.op = "display_frame" =>
        IF ret.args.frame_number >= frame_count(krec)
        THEN /\ ~ret.res.ok
             /\ ret.res.err.exc = "ValueError"
             /\ ~ret.res.err.upper.wrapped
             /\ ret.res.err.upper.n < frame_count(krec)
        ELSE /\ ret.res.ok
             /\ ret.res.v.frame = ret.args.frame_number
             /\ ret.res.v.video_timestamp
                  = krec.frames[ret.args.frame_number + 1].video_timestamp

====
